---- MODULE Spec2Model ----
(***************************************************************************)
(* A model of ekonlpy.sentiment: BaseDict (base.py) and its lexicon        *)
(* loader MPKO (mpko.py).                                                  *)
(*                                                                         *)
(* Text is modelled character by character: a str is a sequence of         *)
(* one-character strings, so that split, strip, float and len act on the   *)
(* characters as the Python built-ins do.  Numbers are fixed-point: a      *)
(* Python number v is the integer v * Scale, and the two quotients that    *)
(* get_score returns are exact fractions [n, d].                           *)
(***************************************************************************)
EXTENDS Integers, Sequences, FiniteSets, TLC

(***************************************************************************)
(* Bounds of the model.                                                    *)
(***************************************************************************)
\* Lines in a lexicon file.
MaxLines == 3
\* Tokens in one get_score call.
MaxTerms == 2
\* Fractional decimal digits a number keeps.
FracDigits == 1

Scale == 10 ^ FracDigits

\* The Python number n (an integer literal of the source) in fixed point.
Num(n) == n * Scale

Min(S) == CHOOSE m \in S : \A k \in S : m <= k
Max(S) == CHOOSE m \in S : \A k \in S : m >= k

(***************************************************************************)
(* str.strip, str.split and float, on sequences of characters.             *)
(***************************************************************************)
Whitespace == {" ", "\t", "\n", "\r"}

\* str.strip(): the text between the first and the last non-blank character.
strip(s) ==
  LET keep == {k \in 1..Len(s) : s[k] \notin Whitespace}
  IN  IF keep = {} THEN << >> ELSE SubSeq(s, Min(keep), Max(keep))

\* str.split(sep): the fields between the separators, empty fields included.
RECURSIVE split(_, _)
split(s, sep) ==
  LET at == {k \in 1..Len(s) : s[k] = sep}
  IN  IF at = {} THEN << s >>
      ELSE << SubSeq(s, 1, Min(at) - 1) >> \o split(SubSeq(s, Min(at) + 1, Len(s)), sep)

DigitValue ==
  ("0" :> 0) @@ ("1" :> 1) @@ ("2" :> 2) @@ ("3" :> 3) @@ ("4" :> 4) @@
  ("5" :> 5) @@ ("6" :> 6) @@ ("7" :> 7) @@ ("8" :> 8) @@ ("9" :> 9)

IsDigits(s) == \A k \in 1..Len(s) : s[k] \in DOMAIN DigitValue

\* The integer a digit string denotes.
RECURSIVE IntPart(_)
IntPart(s) ==
  IF s = << >> THEN 0
  ELSE 10 * IntPart(SubSeq(s, 1, Len(s) - 1)) + DigitValue[s[Len(s)]]

\* The fraction a digit string after the point denotes, in units of 1/Scale.
RECURSIVE FracPart(_, _)
FracPart(s, place) ==
  IF s = << >> \/ place > FracDigits THEN 0
  ELSE DigitValue[Head(s)] * 10 ^ (FracDigits - place) + FracPart(Tail(s), place + 1)

\* float(text): a decimal literal [sign] digits [. digits] or [sign] . digits,
\* blanks around it ignored; anything else is a ValueError.  The value keeps
\* FracDigits digits after the point (exponents, inf and nan are not read).
float(text) ==
  LET u      == strip(text)
      signed == u # << >> /\ Head(u) \in {"+", "-"}
      body   == IF signed THEN Tail(u) ELSE u
      dots   == {k \in 1..Len(body) : body[k] = "."}
      ip     == IF dots = {} THEN body ELSE SubSeq(body, 1, Min(dots) - 1)
      fp     == IF dots = {} THEN << >> ELSE SubSeq(body, Min(dots) + 1, Len(body))
      valid  == /\ Cardinality(dots) <= 1
                /\ IsDigits(ip) /\ IsDigits(fp)
                /\ Len(ip) + Len(fp) >= 1
      mag    == IntPart(ip) * Scale + FracPart(fp, 1)
  IN  IF ~valid THEN [ok |-> FALSE, val |-> 0]
      ELSE [ok |-> TRUE, val |-> IF signed /\ Head(u) = "-" THEN 0 - mag ELSE mag]

(***************************************************************************)
(* Python values: the kind argument, dictionaries.                         *)
(***************************************************************************)
PyInt(n) == [type |-> "int", v |-> n]
None == [type |-> "NoneType"]

\* dict: a function from its keys; {} is the function with no key.
EmptyDict == << >>
DictSet(d, k, v) == [x \in (DOMAIN d) \cup {k} |-> IF x = k THEN v ELSE d[x]]

(***************************************************************************)
(* MPKO.KINDS and the lexicon files.                                       *)
(***************************************************************************)
KINDS ==
  (PyInt(0) :> "mp_polarity_lexicon_mkt.csv") @@
  (PyInt(1) :> "mp_polarity_lexicon_lex.csv") @@
  (PyInt(3) :> "mp_uncertainty_lexicon.csv")

Files == {KINDS[k] : k \in DOMAIN KINDS}

W_word == <<"w", "o", "r", "d">>
W_hike == <<"h", "i", "k", "e">>
W_cut  == <<"c", "u", "t">>
W_hold == <<"h", "o", "l", "d">>
W_x    == <<"x">>

\* Lines a lexicon file may hold.
HeaderLine == "word,p,s\n"
HikeUp     == "hike,1,0.5\n"
CutDown    == "cut,-1,-1.5\n"
HikeDown   == "hike,-1,-0.7\n"
ShortWord  == "x,1,0.5\n"
ShortBad   == "x,a,0.5\n"
HoldFlat   == "hold,0,0.2\n"
BadScore   == "cut,-1,\n"
BlankLine  == "\n"

SampleLines ==
  {HeaderLine, HikeUp, CutDown, HikeDown, ShortWord, ShortBad, HoldFlat, BadScore,
   BlankLine}

\* The characters of each line.
Chars ==
  (HeaderLine :> <<"w", "o", "r", "d", ",", "p", ",", "s", "\n">>) @@
  (HikeUp     :> <<"h", "i", "k", "e", ",", "1", ",", "0", ".", "5", "\n">>) @@
  (CutDown    :> <<"c", "u", "t", ",", "-", "1", ",", "-", "1", ".", "5", "\n">>) @@
  (HikeDown   :> <<"h", "i", "k", "e", ",", "-", "1", ",", "-", "0", ".", "7", "\n">>) @@
  (ShortWord  :> <<"x", ",", "1", ",", "0", ".", "5", "\n">>) @@
  (ShortBad   :> <<"x", ",", "a", ",", "0", ".", "5", "\n">>) @@
  (HoldFlat   :> <<"h", "o", "l", "d", ",", "0", ",", "0", ".", "2", "\n">>) @@
  (BadScore   :> <<"c", "u", "t", ",", "-", "1", ",", "\n">>) @@
  (BlankLine  :> <<"\n">>)

SeqsUpTo(S, n) == UNION {[1..m -> S] : m \in 0..n}

Lexicons == SeqsUpTo(SampleLines, MaxLines)

\* The values of the constructor's kind argument.
KindArgs == {PyInt(0), PyInt(1), PyInt(2), PyInt(3), None}

\* The terms scored.
Terms == {W_hike, W_cut, W_hold, W_x}
TermLists == SeqsUpTo(Terms, MaxTerms)

VARIABLES
  pc,          \* "new", "init_dict", "ready", "returned", "failed"
  kind,        \* __init__'s kind argument
  path,        \* the file init_dict opens
  f,           \* the lines of the open file
  lineno,      \* lines of it read so far
  _posdict, _negdict, _poldict,
  _tokenizer,  \* "unset", "assigned"
  error,       \* the exception raised, or "none"
  last         \* the last scoring call and what it returned

vars == <<pc, kind, path, f, lineno, _posdict, _negdict, _poldict, _tokenizer, error, last>>
tables == <<_posdict, _negdict, _poldict>>

NoCall == [op |-> "none"]

Init ==
  /\ pc = "new"
  /\ kind = None
  /\ path = ""
  /\ f = << >>
  /\ lineno = 0
  /\ _posdict = EmptyDict /\ _negdict = EmptyDict /\ _poldict = EmptyDict
  /\ _tokenizer = "unset"
  /\ error = "none"
  /\ last = NoCall

(***************************************************************************)
(* MPKO.init_dict                                                          *)
(***************************************************************************)
\* A slip in the fallback: the default is taken to be kind 1.
SelectKindDefaultOne(k) == IF k \in DOMAIN KINDS THEN k ELSE PyInt(1)

\* mpko.py:23
SelectKind(k) == IF k \in DOMAIN KINDS THEN k ELSE PyInt(0)

Tables(pos, neg, pol, err) == [posdict |-> pos, negdict |-> neg, poldict |-> pol, error |-> err]

\* A slip: a word already in PolarityMap keeps its first score (setdefault).
StoreRecordKeepFirst(w, p, s, pos, neg, pol) ==
  IF Len(w) > 1
    THEN Tables(IF p > 0 THEN DictSet(pos, w, Num(1)) ELSE pos,
                IF p > 0 THEN neg ELSE IF p < 0 THEN DictSet(neg, w, Num(-1)) ELSE neg,
                IF w \in DOMAIN pol THEN pol ELSE DictSet(pol, w, s),
                "none")
    ELSE Tables(pos, neg, pol, "none")

\* A slip: the length filter lets one-character words through (len(w) > 0).
StoreRecordNoFilter(w, p, s, pos, neg, pol) ==
  IF Len(w) > 0
    THEN Tables(IF p > 0 THEN DictSet(pos, w, Num(1)) ELSE pos,
                IF p > 0 THEN neg ELSE IF p < 0 THEN DictSet(neg, w, Num(-1)) ELSE neg,
                DictSet(pol, w, s),
                "none")
    ELSE Tables(pos, neg, pol, "none")

\* mpko.py:34-39, a parsed record stored: w the word, p and s its numbers.
StoreRecord(w, p, s, pos, neg, pol) ==
  IF Len(w) > 1
    THEN Tables(IF p > 0 THEN DictSet(pos, w, Num(1)) ELSE pos,
                IF p > 0 THEN neg ELSE IF p < 0 THEN DictSet(neg, w, Num(-1)) ELSE neg,
                DictSet(pol, w, s),
                "none")
    ELSE Tables(pos, neg, pol, "none")

\* A slip: the length filter comes first, so a short word's numbers are
\* never parsed.
LineEffectFilterFirst(line, pos, neg, pol) ==
  LET word == split(Chars[line], ",")
      w    == word[1]
  IN  IF w = W_word \/ Len(w) <= 1 THEN Tables(pos, neg, pol, "none")
      ELSE IF Len(word) < 2 THEN Tables(pos, neg, pol, "IndexError")
      ELSE LET p == float(strip(word[2])) IN
        IF ~p.ok THEN Tables(pos, neg, pol, "ValueError")
        ELSE IF Len(word) < 3 THEN Tables(pos, neg, pol, "IndexError")
        ELSE LET s == float(strip(word[3])) IN
          IF ~s.ok THEN Tables(pos, neg, pol, "ValueError")
          ELSE StoreRecord(w, p.val, s.val, pos, neg, pol)

\* The loop body, mpko.py:28-39, on one line of the file: the tables after it
\* and the exception it raises ("none": the loop goes on).  word[1] and
\* word[2] of the source are word[2] and word[3] here.
LineEffect(line, pos, neg, pol) ==
  LET word == split(Chars[line], ",")
      w    == word[1]
  IN  IF w = W_word THEN Tables(pos, neg, pol, "none")
      ELSE IF Len(word) < 2 THEN Tables(pos, neg, pol, "IndexError")
      ELSE LET p == float(strip(word[2])) IN
        IF ~p.ok THEN Tables(pos, neg, pol, "ValueError")
        ELSE IF Len(word) < 3 THEN Tables(pos, neg, pol, "IndexError")
        ELSE LET s == float(strip(word[3])) IN
          IF ~s.ok THEN Tables(pos, neg, pol, "ValueError")
          ELSE StoreRecord(w, p.val, s.val, pos, neg, pol)

\* BaseDict.__init__ up to the open() of init_dict (base.py:56-59,
\* mpko.py:23-26).  The file at path is the environment's: it holds any
\* lexicon, or does not exist.
Construct(k, exists, content) ==
  /\ pc = "new"
  /\ kind' = k
  /\ _posdict' = EmptyDict /\ _negdict' = EmptyDict /\ _poldict' = EmptyDict
  /\ path' = KINDS[SelectKind(k)]
  /\ IF exists
       THEN pc' = "init_dict" /\ error' = "none" /\ f' = content
       ELSE pc' = "failed" /\ error' = "FileNotFoundError" /\ f' = << >>
  /\ UNCHANGED <<lineno, _tokenizer, last>>

\* One turn of `for line in f` (mpko.py:27-39).
ReadLine ==
  /\ pc = "init_dict"
  /\ lineno < Len(f)
  /\ LET r == LineEffect(f[lineno + 1], _posdict, _negdict, _poldict) IN
       /\ _posdict' = r.posdict
       /\ _negdict' = r.negdict
       /\ _poldict' = r.poldict
       /\ error' = r.error
       /\ pc' = IF r.error = "none" THEN "init_dict" ELSE "failed"
  /\ lineno' = lineno + 1
  /\ UNCHANGED <<kind, path, f, _tokenizer, last>>

\* A slip: the assert forgets the negative table.
NonEmptyPositive(pos, neg) == Cardinality(DOMAIN pos) > 0

\* base.py:65
NonEmptyTables(pos, neg) == Cardinality(DOMAIN pos) > 0 /\ Cardinality(DOMAIN neg) > 0

\* The file is exhausted: init_dict returns, and __init__ goes on to the
\* tokenizer (the one it was given, or init_tokenizer's) and to its closing
\* assert (base.py:60-65).
FinishInit ==
  /\ pc = "init_dict"
  /\ lineno = Len(f)
  /\ _tokenizer' = "assigned"
  /\ IF NonEmptyTables(_posdict, _negdict)
       THEN pc' = "ready" /\ error' = "none"
       ELSE pc' = "failed" /\ error' = "AssertionError"
  /\ UNCHANGED <<kind, path, f, lineno, _posdict, _negdict, _poldict, last>>

(***************************************************************************)
(* Scoring: BaseDict.tokenize, _get_score, get_score                       *)
(***************************************************************************)
PyList(items) == [type |-> "list", items |-> items]
PyStr(chars) == [type |-> "str", items |-> chars]

\* The arguments get_score is called with: lists of terms, and a bare str.
TermArgs == {PyList(t) : t \in TermLists} \cup {PyStr(W_hike)}

\* base.py:53, 1e-6 as a fraction.
EPSILON == [n |-> 1, d |-> 1000000]

RECURSIVE sum(_)
sum(li) == IF li = << >> THEN 0 ELSE Head(li) + sum(Tail(li))

\* base.py:97-108
_get_score(term, by_count) ==
  IF by_count
    THEN IF term \in DOMAIN _posdict THEN _posdict[term]
         ELSE IF term \in DOMAIN _negdict THEN _negdict[term]
         ELSE 0
    ELSE IF term \in DOMAIN _poldict THEN _poldict[term]
         ELSE 0

\* A slip: the divisor of the class docstring, N_pos + N_neg, taken with
\* the signed sums.
DenominatorSigned(s_pos, s_neg, n, by_count) ==
  IF by_count THEN s_pos + s_neg ELSE Num(n)

\* base.py:127, the divisor before EPSILON is added, in units of 1/Scale.
Denominator(s_pos, s_neg, n, by_count) ==
  IF by_count THEN s_pos - s_neg ELSE Num(n)

\* A slip: only the positive tokens are counted.
SubjectiveCountPositive(pos_score_li, neg_score_li) == Len(pos_score_li)

\* base.py:128, the dividend.
SubjectiveCount(pos_score_li, neg_score_li) == Len(pos_score_li) + Len(neg_score_li)

\* base.py:119-133.  Polarity and Subjectivity are the exact quotients
\* a / (b + EPSILON), with a and b in units of 1/Scale:
\*   a / (b + EPSILON) = (a * EPSILON.d) / (b * EPSILON.d + Scale * EPSILON.n).
get_score(terms, by_count) ==
  IF terms.type \notin {"list", "tuple"} THEN [raised |-> "AssertionError"]
  ELSE
    LET score_li     == [k \in 1..Len(terms.items) |-> _get_score(terms.items[k], by_count)]
        pos_score_li == SelectSeq(score_li, LAMBDA s : s > 0)
        neg_score_li == SelectSeq(score_li, LAMBDA s : s < 0)
        s_pos        == sum(pos_score_li)
        s_neg        == sum(neg_score_li)
        den          == Denominator(s_pos, s_neg, Len(score_li), by_count)
        s_pol        == [n |-> (s_pos + s_neg) * EPSILON.d,
                         d |-> den * EPSILON.d + Scale * EPSILON.n]
        s_sub        == [n |-> Num(SubjectiveCount(pos_score_li, neg_score_li)) * EPSILON.d,
                         d |-> Num(Len(score_li)) * EPSILON.d + Scale * EPSILON.n]
    IN  [Positive |-> s_pos, Negative |-> s_neg, Polarity |-> s_pol, Subjectivity |-> s_sub]

Frame == UNCHANGED <<kind, path, f, lineno, _tokenizer, error>>

\* A call of _get_score.
CallTermScore(term, by_count) ==
  /\ pc = "ready"
  /\ pc' = "returned"
  /\ last' = [op |-> "_get_score", term |-> term, by_count |-> by_count,
              ret |-> _get_score(term, by_count)]
  /\ UNCHANGED tables
  /\ Frame

\* A slip: get_score caches a zero score for every term it did not find.
CallGetScoreCaching(terms, by_count) ==
  /\ pc = "ready"
  /\ pc' = "returned"
  /\ last' = [op |-> "get_score", terms |-> terms, by_count |-> by_count,
              ret |-> get_score(terms, by_count)]
  /\ _poldict' = [x \in (DOMAIN _poldict) \cup {terms.items[k] : k \in 1..Len(terms.items)} |->
                    IF x \in DOMAIN _poldict THEN _poldict[x] ELSE 0]
  /\ UNCHANGED <<_posdict, _negdict>>
  /\ Frame

\* A call of get_score.
CallGetScore(terms, by_count) ==
  /\ pc = "ready"
  /\ pc' = "returned"
  /\ last' = [op |-> "get_score", terms |-> terms, by_count |-> by_count,
              ret |-> get_score(terms, by_count)]
  /\ UNCHANGED tables
  /\ Frame

\* A call of tokenize: the tokenizer, which is not part of these sources,
\* returns some sequence of terms.
CallTokenize(tokens) ==
  /\ pc = "ready"
  /\ pc' = "returned"
  /\ last' = [op |-> "tokenize", ret |-> tokens]
  /\ UNCHANGED tables
  /\ Frame

\* The caller takes the returned value (or the exception) and goes on.
Return ==
  /\ pc = "returned"
  /\ pc' = "ready"
  /\ last' = NoCall
  /\ UNCHANGED tables
  /\ Frame

\* What a tokenizer returns on the texts it is given.
Tokenized == {<< >>, <<W_hike, W_x, W_cut>>}

\* The calls a program makes, with their arguments.
NewDict ==
  /\ pc = "new"
  /\ \E k \in KindArgs, exists \in BOOLEAN, content \in Lexicons : Construct(k, exists, content)

ScoreTerm ==
  /\ pc = "ready"
  /\ \E t \in Terms, c \in BOOLEAN : CallTermScore(t, c)

ScoreTerms ==
  /\ pc = "ready"
  /\ \E a \in TermArgs, c \in BOOLEAN : CallGetScore(a, c)

TokenizeText ==
  /\ pc = "ready"
  /\ \E t \in Tokenized : CallTokenize(t)

Next ==
  \/ NewDict
  \/ ReadLine
  \/ FinishInit
  \/ ScoreTerm
  \/ ScoreTerms
  \/ TokenizeText
  \/ Return

Spec == Init /\ [][Next]_vars

(***************************************************************************)
(* The properties.                                                         *)
(***************************************************************************)
Constructed == pc \in {"ready", "returned"}

\* init_dict has read the whole file without an exception.
InitDictDone ==
  \/ pc = "init_dict" /\ lineno = Len(f)
  \/ Constructed
  \/ pc = "failed" /\ error = "AssertionError"

Keys(d) == DOMAIN d

\* The comma-separated fields of a line of the file.
Fields(line) == split(Chars[line], ",")

\* A record init_dict stores or discards: not the header, three fields or
\* more, both numbers parse.
WellFormed(line) ==
  /\ Fields(line)[1] # W_word
  /\ Len(Fields(line)) >= 3
  /\ float(strip(Fields(line)[2])).ok
  /\ float(strip(Fields(line)[3])).ok

ClassOf(line) == float(strip(Fields(line)[2])).val
ScoreOf(line) == float(strip(Fields(line)[3])).val

\* A list of terms was scored and the result is being returned.
Scored == pc = "returned" /\ last.op = "get_score" /\ last.terms.type = "list"

InUnitInterval(q) == q.d > 0 /\ 0 - q.d <= q.n /\ q.n <= q.d

\* C1: after init_dict has processed a lexicon file, no term is a key of
\* both _posdict and _negdict.
C1_PosNegDisjoint == InitDictDone => Keys(_posdict) \cap Keys(_negdict) = {}

\* C2: construction never completes with an empty _posdict or an empty
\* _negdict: a constructed dictionary has both non-empty, and a construction
\* that failed ended with an exception.
C2_NonEmptyOrFailed ==
  /\ Constructed => Keys(_posdict) # {} /\ Keys(_negdict) # {} /\ error = "none"
  /\ pc = "failed" => error # "none"

\* C2, its case: the lexicon gave positive terms only, and construction failed
\* on the closing assert.
C2_Witness ==
  /\ pc = "failed" /\ error = "AssertionError"
  /\ Keys(_posdict) # {} /\ Keys(_negdict) = {}

\* C3 as stated: whenever a scored list holds a sentiment-bearing token, the
\* Polarity lies in [-1, 1], in by_count and in by_polarity mode.
C3_PolarityInUnitInterval ==
  Scored =>
    LET items == last.terms.items IN
      (\E k \in 1..Len(items) : _get_score(items[k], last.by_count) # 0)
        => InUnitInterval(last.ret.Polarity)

\* C3 amended: in by_count mode the Polarity of every scored list lies in
\* [-1, 1]; in by_polarity mode it does when the PolarityMap value of every
\* token lies in [-1, 1].
C3_PolarityBounded ==
  Scored =>
    LET items   == last.terms.items
        bounded == \A k \in 1..Len(items) :
                     /\ _get_score(items[k], FALSE) <= Num(1)
                     /\ _get_score(items[k], FALSE) >= Num(-1)
    IN  (last.by_count \/ bounded) => InUnitInterval(last.ret.Polarity)

\* C3, its case: a list with a sentiment-bearing token scored by polarity,
\* every token's value within [-1, 1], and a Polarity that is not 0.
C3_Witness ==
  /\ Scored /\ ~last.by_count
  /\ LET items == last.terms.items IN
       /\ \E k \in 1..Len(items) : _get_score(items[k], FALSE) # 0
       /\ \A k \in 1..Len(items) :
            _get_score(items[k], FALSE) <= Num(1) /\ _get_score(items[k], FALSE) >= Num(-1)
  /\ last.ret.Polarity.n # 0

\* C4: in by_count mode _get_score returns +1 for every term of _posdict,
\* -1 for every term of _negdict, and 0 for every term in neither.
C4_CountScore ==
  pc = "returned" /\ last.op = "_get_score" /\ last.by_count =>
    /\ last.term \in Keys(_posdict) => last.ret = Num(1)
    /\ last.term \in Keys(_negdict) => last.ret = Num(-1)
    /\ last.term \notin Keys(_posdict) \cup Keys(_negdict) => last.ret = 0

RECURSIVE SumOver(_, _)
SumOver(S, score) ==
  IF S = {} THEN 0
  ELSE LET k == CHOOSE x \in S : TRUE IN score[k] + SumOver(S \ {k}, score)

\* C5: get_score returns Positive = the sum of the positive per-token scores,
\* Negative = the sum of the negative ones, Polarity = (Positive + Negative) /
\* (denominator + 1e-6) with denominator = Positive - Negative in by_count mode
\* and the number of tokens in by_polarity mode, Subjectivity = (number of
\* tokens with a nonzero score) / (number of tokens + 1e-6); in by_count mode
\* Positive - Negative is the number of nonzero-score tokens; the empty list
\* yields 0 four times.
C5_ScoreFormula ==
  Scored =>
    LET items   == last.terms.items
        score   == [k \in 1..Len(items) |-> _get_score(items[k], last.by_count)]
        up      == {k \in 1..Len(items) : score[k] > 0}
        down    == {k \in 1..Len(items) : score[k] < 0}
        nonzero == {k \in 1..Len(items) : score[k] # 0}
        P       == SumOver(up, score)
        N       == SumOver(down, score)
        den     == IF last.by_count THEN P - N ELSE Num(Len(items))
        r       == last.ret
    IN  /\ r.Positive = P
        /\ r.Negative = N
        /\ r.Polarity = [n |-> (P + N) * EPSILON.d, d |-> den * EPSILON.d + Scale * EPSILON.n]
        /\ r.Subjectivity = [n |-> Num(Cardinality(nonzero)) * EPSILON.d,
                             d |-> Num(Len(items)) * EPSILON.d + Scale * EPSILON.n]
        /\ last.by_count => P - N = Num(Cardinality(nonzero))
        /\ items = << >> =>
             r.Positive = 0 /\ r.Negative = 0 /\ r.Polarity.n = 0 /\ r.Subjectivity.n = 0
        /\ r.Polarity.d > 0 /\ r.Subjectivity.d > 0

\* C5, its case: a list with a positive and a negative token scored by count.
C5_Witness ==
  /\ Scored /\ last.by_count
  /\ last.ret.Positive > 0 /\ last.ret.Negative < 0

\* The score of the last record of the file whose word is w.
LastScore(w) ==
  ScoreOf(f[Max({k \in 1..Len(f) : Fields(f[k])[1] = w})])

\* C6: after a successful load every key of _poldict is retrieved by
\* _get_score(word, by_count=False) with the polarity_score of the last
\* record of the file for that word.
C6_PolarityRoundTrip ==
  /\ Constructed => \A w \in Keys(_poldict) : _get_score(w, FALSE) = LastScore(w)
  /\ pc = "returned" /\ last.op = "_get_score" /\ ~last.by_count
       /\ last.term \in Keys(_poldict) => last.ret = LastScore(last.term)

\* C6, its case: the file holds hike twice, with scores 0.5 and then -0.7, and
\* _get_score("hike", by_count=False) has returned -0.7.
C6_Witness ==
  /\ pc = "returned" /\ last.op = "_get_score" /\ ~last.by_count
  /\ last.term = W_hike
  /\ \E j, k \in 1..Len(f) : j < k /\ f[j] = HikeUp /\ f[k] = HikeDown
  /\ last.ret = ScoreOf(HikeDown) /\ last.ret # ScoreOf(HikeUp)

\* C7: a well-formed record whose word has length <= 1 changes no table; any
\* other well-formed record puts its word in _poldict with its score, and in
\* _posdict with +1 when its class is positive, in _negdict with -1 when it
\* is negative, in neither when it is 0.
C7_RecordEffect ==
  [][pc = "init_dict" /\ lineno' = lineno + 1 /\ WellFormed(f[lineno + 1]) =>
       LET line == f[lineno + 1]
           w    == Fields(line)[1]
       IN  /\ pc' = "init_dict" /\ error' = "none"
           /\ Len(w) <= 1 => tables' = tables
           /\ Len(w) > 1 =>
                /\ Keys(_poldict') = Keys(_poldict) \cup {w}
                /\ _poldict'[w] = ScoreOf(line)
                /\ \A x \in Keys(_poldict) \ {w} : _poldict'[x] = _poldict[x]
                /\ ClassOf(line) > 0 =>
                     /\ Keys(_posdict') = Keys(_posdict) \cup {w}
                     /\ _posdict'[w] = Num(1)
                     /\ _negdict' = _negdict
                /\ ClassOf(line) < 0 =>
                     /\ Keys(_negdict') = Keys(_negdict) \cup {w}
                     /\ _negdict'[w] = Num(-1)
                     /\ _posdict' = _posdict
                /\ ClassOf(line) = 0 => _posdict' = _posdict /\ _negdict' = _negdict
    ]_vars

\* C7, its case: a one-character word was read and discarded, then a word of
\* class 0 was read and stored in _poldict alone.
C7_Witness ==
  /\ pc = "init_dict" /\ lineno = 2
  /\ f[1] = ShortWord /\ f[2] = HoldFlat
  /\ Keys(_poldict) = {W_hold} /\ _poldict[W_hold] = ScoreOf(HoldFlat)
  /\ Keys(_posdict) = {} /\ Keys(_negdict) = {}

\* C8: once construction has completed no call of tokenize, _get_score or
\* get_score changes a table, a failing call included; the tables change
\* only while init_dict reads the file.
C8_TablesFrozen ==
  [][/\ Constructed => tables' = tables
     /\ tables' # tables => pc = "init_dict"]_vars

\* C8, its case: get_score was called with a str, failed on its assert, and
\* the dictionary is still constructed with its tables.
C8_Witness ==
  /\ pc = "returned" /\ last.op = "get_score"
  /\ last.terms.type = "str" /\ last.ret = [raised |-> "AssertionError"]
  /\ Keys(_poldict) # {}

\* C9: a kind of KINDS opens its own file; any other kind (None and 2 among
\* them) opens the file of kind 0, and the selection raises nothing: the only
\* exceptions of a construction are those of reading that file and of the
\* closing assert.
C9_KindSelectsFile ==
  /\ \A j, k \in DOMAIN KINDS : j # k => KINDS[j] # KINDS[k]
  /\ pc # "new" =>
       /\ kind \in DOMAIN KINDS => path = KINDS[kind]
       /\ kind \notin DOMAIN KINDS => path = KINDS[PyInt(0)]
       /\ error \in {"none", "FileNotFoundError", "IndexError", "ValueError", "AssertionError"}

\* C9, its case: a dictionary constructed with kind = 2 from the file of
\* kind 0.
C9_Witness ==
  /\ pc = "ready" /\ kind = PyInt(2)
  /\ path = "mp_polarity_lexicon_mkt.csv"

\* C10: the two numbers of a line that is not the header are parsed before
\* the length filter: a number that does not parse aborts the load with a
\* ValueError whatever the length of the word; a line whose first field is
\* "word" is skipped, its other fields unparsed, wherever it stands.
C10_ParseBeforeFilter ==
  [][pc = "init_dict" /\ lineno' = lineno + 1 =>
       LET word == Fields(f[lineno + 1])
           badClass == Len(word) >= 2 /\ ~float(strip(word[2])).ok
           badScore == Len(word) >= 3 /\ float(strip(word[2])).ok /\ ~float(strip(word[3])).ok
       IN  /\ word[1] = W_word =>
                pc' = "init_dict" /\ error' = "none" /\ tables' = tables
           /\ word[1] # W_word /\ (badClass \/ badScore) =>
                pc' = "failed" /\ error' = "ValueError" /\ tables' = tables
    ]_vars

\* C10, its case: a header line that is not the first line was skipped, and
\* the next line, a one-character word with a malformed class, aborted the
\* load with a ValueError.
C10_Witness ==
  /\ pc = "failed" /\ error = "ValueError"
  /\ lineno >= 3
  /\ f[lineno] = ShortBad /\ f[lineno - 1] = HeaderLine
  /\ Len(Fields(f[lineno])[1]) <= 1
====
